---- MODULE Spec2Model ----
(***************************************************************************)
(* Conversation engine of the App component (src/App.tsx) together with    *)
(* the local session store (src/services/supabase.ts, dbService) and the   *)
(* completion client (src/unnamed/part_000, sendMessageToGemini).         *)
(*                                                                         *)
(* One action is one browser task: a UI event handler together with the    *)
(* promise continuations (microtasks) and the React commit and passive     *)
(* effect that follow it before the next event can be delivered.  The      *)
(* only suspension that lets other events in is the remote completion      *)
(* call; its continuation is the action Resolve.                           *)
(***************************************************************************)
EXTENDS Integers, Sequences, FiniteSets, TLC

VARIABLES
    messages,          \* App.tsx:20  useState<Message[]>
    currentSessionId,  \* App.tsx:19
    sessions,          \* App.tsx:18  the sidebar's copy of the session list
    input,             \* App.tsx:23
    isLoading,         \* App.tsx:24
    attachments,       \* App.tsx:31  staged attachments
    editingMessageId,  \* App.tsx:36
    editContent,       \* App.tsx:37
    store,             \* localStorage[LOCAL_STORAGE_KEY], a JSON array of sessions
    pending,           \* suspended handleSend / handleEditSave calls awaiting the completion
    apiKey,            \* process.env.API_KEY is set (part_000:51)
    nextId,            \* source of generateId() for messages
    nextSessionId,     \* source of generateId() for sessions
    now,               \* Date.now()
    deepThink,         \* App.tsx:27
    analyzeMode,       \* App.tsx:28
    optimizeMode       \* App.tsx:29

vars == <<messages, currentSessionId, sessions, input, isLoading, attachments,
          editingMessageId, editContent, store, pending, apiKey, nextId,
          nextSessionId, now, deepThink, analyzeMode, optimizeMode>>

\* the AI feature flags
modes == <<deepThink, analyzeMode, optimizeMode>>

(* ------------------------------ bounds ---------------------------------- *)
MaxId == 1       \* last message identifier generateId() hands out
MaxTime == 0     \* the clock of this visit runs over 0..MaxTime

(* ------------------------------ values ---------------------------------- *)
\* Texts are sequences of characters.
NoSession == 0                    \* currentSessionId === null
NoEdit == -3                      \* editingMessageId === null
TempId == -1                      \* the id 'temp' of App.tsx:239
WelcomeId == -2                   \* the id 'welcome' filtered at App.tsx:182/252
GuestId == "guest_dev"
TitleLen == 30
Ellipsis == <<".", ".", ".">>
DefaultTitle == <<"New Chat">>
NoResponseText == <<"No response generated.">>
SendErrorText == <<"I encountered a system error. Please check your API key.">>
EditErrorText == <<"Error regenerating response after edit.">>
ExplainPrefix == <<"Explain this code in detail:">>
RefactorPrefix == <<"Refactor this code:">>

TypedTexts == {<<" ">>, <<"a">>}                 \* what the user types in the input box
EditTexts == {<<" ">>, <<"b">>}                  \* what the user types in the edit box
ResponseTexts == {<<>>, <<"r">>}                 \* response.text of the remote model
QuickPrompts == {<<"a">>}                        \* prompt of a QuickPrompt button
CodeBlocks == {<<"c">>}                          \* code of a rendered code block
\* the files the user has at hand
Files == {[name |-> "f", mimeType |-> "text/plain", data |-> "QQ=="]}
\* the largest file handleFileUpload accepts, and one of that size
MaxFileBytes == 5 * 1024 * 1024
LargeData == "base64 of MaxFileBytes bytes"
LargeFile == [name |-> "g", mimeType |-> "image/png", data |-> LargeData]
\* the characters localStorage holds for one origin before setItem throws
Quota == 5 * 1024 * 1024
\* a payload that, stored with one message, leaves no character of the quota
FillData == "base64 that fills the quota"
FillFile == [name |-> "h", mimeType |-> "image/png", data |-> FillData]

(* ------------------------------ helpers --------------------------------- *)
IsSpace(c) == c = " "

RECURSIVE TrimStart(_)
TrimStart(s) == IF s # <<>> /\ IsSpace(Head(s)) THEN TrimStart(Tail(s)) ELSE s

RECURSIVE TrimEnd(_)
TrimEnd(s) ==
    IF s # <<>> /\ IsSpace(s[Len(s)]) THEN TrimEnd(SubSeq(s, 1, Len(s) - 1)) ELSE s

\* String.prototype.trim
Trim(s) == TrimEnd(TrimStart(s))

\* String.prototype.slice(0, n)
Slice0(s, n) == SubSeq(s, 1, IF Len(s) < n THEN Len(s) ELSE n)

\* Array.prototype.findIndex(m => m.id === id), 1-based, 0 for -1
RECURSIVE FindIndexFrom(_, _, _)
FindIndexFrom(seq, id, i) ==
    IF i > Len(seq) THEN 0
    ELSE IF seq[i].id = id THEN i
    ELSE FindIndexFrom(seq, id, i + 1)

FindIndex(seq, id) == FindIndexFrom(seq, id, 1)

\* Array.prototype.filter(m => m.id !== 'welcome')
FilterWelcome(seq) == SelectSeq(seq, LAMBDA m : m.id # WelcomeId)

Message(id, role, content, atts, ts) ==
    [id |-> id, role |-> role, content |-> content, attachments |-> atts, timestamp |-> ts]

(* ---------------------------- session store ----------------------------- *)
\* the title with the ellipsis appended from TitleLen characters on
SessionTitleEllipsisAtLimit(content) ==
    LET t == Slice0(content, TitleLen) \o (IF Len(content) >= TitleLen THEN Ellipsis ELSE <<>>)
    IN  IF t = <<>> THEN DefaultTitle ELSE t

\* title of dbService.createSession
SessionTitle(content) ==
    LET t == Slice0(content, TitleLen) \o (IF Len(content) > TitleLen THEN Ellipsis ELSE <<>>)
    IN  IF t = <<>> THEN DefaultTitle ELSE t

\* stable insertion of x into a sequence ordered by lastUpdated descending
RECURSIVE InsertDesc(_, _)
InsertDesc(sorted, x) ==
    IF sorted = <<>> THEN <<x>>
    ELSE IF Head(sorted).lastUpdated >= x.lastUpdated
         THEN <<Head(sorted)>> \o InsertDesc(Tail(sorted), x)
         ELSE <<x>> \o sorted

RECURSIVE SortDesc(_)
SortDesc(seq) ==
    IF seq = <<>> THEN <<>>
    ELSE InsertDesc(SortDesc(SubSeq(seq, 1, Len(seq) - 1)), seq[Len(seq)])

\* the list in the order of the stored array
GetSessionsUnsorted(st) == st

\* dbService.getSessions
GetSessions(st) == SortDesc(st)

\* length of the base64 text of a file of the given number of bytes
Base64Length(bytes) == 4 * ((bytes + 2) \div 3)

\* characters of an attachment's payload
DataLength(data) ==
    IF data = LargeData THEN Base64Length(MaxFileBytes)
    ELSE IF data = FillData THEN Quota - 4
    ELSE 4

\* characters of the payloads of the first n attachments
RECURSIVE AttachmentsLength(_, _)
AttachmentsLength(atts, n) ==
    IF n = 0 THEN 0
    ELSE DataLength(atts[n].data) + AttachmentsLength(atts, n - 1)

\* characters of the first n messages: one for the record, the content and
\* the payloads
RECURSIVE MessagesLength(_, _)
MessagesLength(msgs, n) ==
    IF n = 0 THEN 0
    ELSE 1 + Len(msgs[n].content)
         + (IF msgs[n].attachments = <<>> THEN 0
            ELSE AttachmentsLength(msgs[n].attachments, Len(msgs[n].attachments)))
         + MessagesLength(msgs, n - 1)

\* characters of the first n sessions: one for the record, the title and
\* the messages
RECURSIVE SessionsLength(_, _)
SessionsLength(st, n) ==
    IF n = 0 THEN 0
    ELSE 1 + Len(st[n].title) + MessagesLength(st[n].messages, Len(st[n].messages))
         + SessionsLength(st, n - 1)

\* characters of JSON.stringify(sessions), the punctuation and the field
\* names of a record counted as one
StoredLength(st) == SessionsLength(st, Len(st))

\* saveLocalSessions: setItem throws when the text exceeds the quota, the
\* catch logs it, and the stored text stays what it was
SaveLocalSessions(old, new) == IF StoredLength(new) <= Quota THEN new ELSE old

\* dbService.createSession: the new session appended to the stored array
CreateSession(st, sid, firstMessage, t) ==
    SaveLocalSessions(st,
        Append(st, [id |-> sid, userId |-> GuestId,
                    title |-> SessionTitle(firstMessage.content),
                    messages |-> <<firstMessage>>, lastUpdated |-> t]))

\* the update that leaves the time stamp of the session as it was
UpdateSessionKeepingStamp(st, sid, newMessages, t) ==
    LET index == FindIndex(st, sid)
    IN  IF index # 0
        THEN [st EXCEPT ![index] = [@ EXCEPT !.messages = newMessages]]
        ELSE st

\* dbService.updateSession
UpdateSession(st, sid, newMessages, t) ==
    LET index == FindIndex(st, sid)
    IN  IF index # 0
        THEN SaveLocalSessions(st,
                [st EXCEPT ![index] = [@ EXCEPT !.messages = newMessages, !.lastUpdated = t]])
        ELSE st

\* dbService.deleteSession
DeleteFromStore(st, sid) == SaveLocalSessions(st, SelectSeq(st, LAMBDA s : s.id # sid))

\* the effect whose update of a stored session is overtaken by the write
\* issued before it, which lands last
PersistEffectOvertaken(st, sid, msgs, t, depsChanged) == st

\* the effect "Persist current session changes", run after a commit that
\* changed messages or currentSessionId
PersistEffect(st, sid, msgs, t, depsChanged) ==
    IF depsChanged /\ sid # NoSession /\ Len(msgs) > 0
    THEN UpdateSession(st, sid, msgs, t)
    ELSE st

(* ------------------------------ initial state --------------------------- *)
\* A session left in localStorage by an earlier visit: two completed round
\* trips, the second sent with a file, written by updateSession before the
\* clock of this visit started.
PastTime == -1
PriorSessionId == 100
PriorFile == CHOOSE f \in Files : TRUE
PriorSession ==
    [id |-> PriorSessionId, userId |-> GuestId, title |-> SessionTitle(<<"a">>),
     messages |-> <<Message(101, "user", <<"a">>, <<>>, PastTime),
                    Message(102, "model", <<"r">>, <<>>, PastTime),
                    Message(103, "user", <<"a">>, <<PriorFile>>, PastTime),
                    Message(104, "model", <<"r">>, <<>>, PastTime)>>,
     lastUpdated |-> PastTime]

PriorStores == {<<>>, <<PriorSession>>}

\* The state once initApp has set currentUser and loadSessions has filled the
\* session list from the store; before that the component renders no control
\* at all (App.tsx:345).
InitWith(firstId, stores) ==
    /\ messages = <<>>
    /\ currentSessionId = NoSession
    /\ store \in stores
    /\ sessions = GetSessions(store)
    /\ input = <<>>
    /\ isLoading = FALSE
    /\ attachments = <<>>
    /\ editingMessageId = NoEdit
    /\ editContent = <<>>
    /\ pending = <<>>
    /\ apiKey \in BOOLEAN
    /\ nextId = firstId
    /\ nextSessionId = 1
    /\ now = 0
    /\ deepThink = FALSE
    /\ analyzeMode = FALSE
    /\ optimizeMode = FALSE

InitFrom(firstId) == InitWith(firstId, PriorStores)

Init == InitFrom(1)

\* A completion call that was rejected for the missing API key has its catch
\* continuation queued as a microtask: it runs before any further event.
MicrotaskPending == \E i \in DOMAIN pending : pending[i].settled

\* generateId() has an identifier left to hand out
IdLeft == nextId <= MaxId

\* Date.now() as read by the running task: the clock never goes back
ClockReads == now..(IF now < MaxTime THEN now + 1 ELSE now)

RemoveAt(seq, i) == SubSeq(seq, 1, i - 1) \o SubSeq(seq, i + 1, Len(seq))

(* --------------------------- completion client -------------------------- *)
\* The instruction blocks of part_000:12-40, each one token of the text.
BaseInstruction == <<"BASE_INSTRUCTION">>
AnalyzeInstruction == <<"ANALYZE_INSTRUCTION">>
OptimizeInstruction == <<"OPTIMIZE_INSTRUCTION">>
Blank == "\n\n"
DirectiveHead == "User has enabled the following modes: "
DirectiveTail == ". Please adhere to ALL instructions above."
DeepModel == "gemini-2.5-flash"
DefaultModel == "gemini-3-pro-preview"
ThinkingBudget == 8192

\* the model chosen without looking at deepThink
GetModelNameIgnoringDeepThink(dt) == DefaultModel

\* getModelName
GetModelName(dt) == IF dt THEN DeepModel ELSE DefaultModel

\* Array.prototype.join
RECURSIVE Join(_, _)
Join(seq, sep) ==
    IF seq = <<>> THEN <<>>
    ELSE IF Len(seq) = 1 THEN <<seq[1]>>
    ELSE <<seq[1], sep>> \o Join(Tail(seq), sep)

\* activeModes as pushed at part_000:61-69
ActiveModes(am, om) ==
    (IF am THEN <<"Analysis">> ELSE <<>>) \o (IF om THEN <<"Optimization">> ELSE <<>>)

\* the instruction with one block at most: analysis wins over optimization
SystemInstructionExclusive(am, om) ==
    IF am
    THEN BaseInstruction \o <<Blank>> \o AnalyzeInstruction
         \o <<Blank, DirectiveHead, "Analysis", DirectiveTail>>
    ELSE IF om
         THEN BaseInstruction \o <<Blank>> \o OptimizeInstruction
              \o <<Blank, DirectiveHead, "Optimization", DirectiveTail>>
         ELSE BaseInstruction

\* systemInstruction as built at part_000:58-73
SystemInstruction(am, om) ==
    LET s1 == BaseInstruction \o (IF am THEN <<Blank>> \o AnalyzeInstruction ELSE <<>>)
        s2 == s1 \o (IF om THEN <<Blank>> \o OptimizeInstruction ELSE <<>>)
        activeModes == ActiveModes(am, om)
    IN  IF Len(activeModes) > 0
        THEN s2 \o <<Blank, DirectiveHead>> \o Join(activeModes, ", ") \o <<DirectiveTail>>
        ELSE s2

\* the config that always has the thinkingConfig key, zeroed without deepThink
ConfigWithZeroedBudget(dt, am, om) ==
    [systemInstruction |-> SystemInstruction(am, om),
     thinkingConfig |-> [thinkingBudget |-> IF dt THEN ThinkingBudget ELSE 0]]

\* config of part_000:75-82: thinkingConfig is a key of it only with deepThink
Config(dt, am, om) ==
    IF dt
    THEN [systemInstruction |-> SystemInstruction(am, om),
          thinkingConfig |-> [thinkingBudget |-> ThinkingBudget]]
    ELSE [systemInstruction |-> SystemInstruction(am, om)]

\* parts of one turn: the text, then one inlineData part per attachment
Parts(content, atts) ==
    <<[text |-> content]>>
    \o [i \in DOMAIN atts |->
           [inlineData |-> [mimeType |-> atts[i].mimeType, data |-> atts[i].data]]]

\* contents of part_000:84-111
Contents(history, newMessage, atts) ==
    [i \in DOMAIN history |->
        [role |-> history[i].role,
         parts |-> Parts(history[i].content, history[i].attachments)]]
    \o <<[role |-> "user", parts |-> Parts(newMessage, atts)]>>

\* sendMessageToGemini up to its await: the generateContent call it makes,
\* none when the API key is missing (it throws at part_000:52)
SendMessageToGemini(history, newMessage, atts, dt, am, om) ==
    IF ~apiKey
    THEN {}
    ELSE {[model |-> GetModelName(dt),
           contents |-> Contents(history, newMessage, atts),
           config |-> Config(dt, am, om)]}

(* -------------------------------- send ---------------------------------- *)
\* the guard without its isLoading disjunct
SendRejectedIgnoringLoading(textToSend) ==
    Trim(textToSend) = <<>> /\ Len(attachments) = 0

\* the guard testing the text without trimming it
SendRejectedWithoutTrim(textToSend) ==
    (textToSend = <<>> /\ Len(attachments) = 0) \/ isLoading

\* guard of handleSend, App.tsx:220
SendRejected(textToSend) ==
    (Trim(textToSend) = <<>> /\ Len(attachments) = 0) \/ isLoading

\* an id generator for sessions that hands out the id of the stored session
NewSessionIdRepeated == PriorSessionId

\* generateId() in createSession: an id no session has had
NewSessionId == nextSessionId

\* the send that gives up when the session it needs could not be stored: the
\* composer is cleared, nothing is appended and nothing is dispatched
HandleSendRollingBack(given, manualInput, t) ==
    LET textToSend == IF given THEN manualInput ELSE input
        userMessage == Message(nextId, "user", textToSend, attachments, t)
        msgs1 == Append(messages, userMessage)
        needSession == currentSessionId = NoSession
        sid == NewSessionId
        tempMsg == Message(TempId, "user", textToSend, <<>>, t)
        store1 == PersistEffect(store, currentSessionId, msgs1, t, TRUE)
        store2 == IF needSession THEN CreateSession(store1, sid, tempMsg, t) ELSE store1
        activeSessionId == IF needSession THEN sid ELSE currentSessionId
        history == FilterWelcome(messages)
        request == [origin |-> "send", history |-> history,
                    newMessage |-> userMessage.content,
                    attachments |-> userMessage.attachments,
                    session |-> activeSessionId, base |-> msgs1,
                    settled |-> ~apiKey,
                    call |-> SendMessageToGemini(history, userMessage.content,
                                                 userMessage.attachments,
                                                 deepThink, analyzeMode, optimizeMode)]
    IN  IF SendRejected(textToSend)
        THEN UNCHANGED vars
        ELSE IF needSession /\ FindIndex(store2, sid) = 0
        THEN /\ input' = <<>>
             /\ attachments' = <<>>
             /\ UNCHANGED <<modes, messages, currentSessionId, sessions, isLoading,
                            editingMessageId, editContent, store, pending, apiKey,
                            nextId, nextSessionId, now>>
        ELSE /\ IdLeft
             /\ messages' = msgs1
             /\ input' = (IF ~given \/ manualInput = <<>> THEN <<>> ELSE input)
             /\ attachments' = <<>>
             /\ isLoading' = TRUE
             /\ currentSessionId' = activeSessionId
             /\ sessions' = (IF needSession THEN GetSessions(store2) ELSE sessions)
             /\ store' = PersistEffect(store2, activeSessionId, msgs1, t, needSession)
             /\ pending' = Append(pending, request)
             /\ nextId' = nextId + 1
             /\ nextSessionId' = (IF needSession THEN nextSessionId + 1 ELSE nextSessionId)
             /\ now' = t
             /\ UNCHANGED <<modes, editingMessageId, editContent, apiKey>>

\* the body of handleSend(manualInput): given is (typeof manualInput ===
\* 'string'); the mode flags are read from the closure and left to the caller
HandleSendBody(given, manualInput, t) ==
    LET textToSend == IF given THEN manualInput ELSE input
        userMessage == Message(nextId, "user", textToSend, attachments, t)
        msgs1 == Append(messages, userMessage)
        needSession == currentSessionId = NoSession
        sid == NewSessionId
        tempMsg == Message(TempId, "user", textToSend, <<>>, t)
        \* commit of the event's updates: the effect sees the old session id
        store1 == PersistEffect(store, currentSessionId, msgs1, t, TRUE)
        store2 == IF needSession THEN CreateSession(store1, sid, tempMsg, t) ELSE store1
        activeSessionId == IF needSession THEN sid ELSE currentSessionId
        history == FilterWelcome(messages)
        request == [origin |-> "send", history |-> history,
                    newMessage |-> userMessage.content,
                    attachments |-> userMessage.attachments,
                    session |-> activeSessionId, base |-> msgs1,
                    settled |-> ~apiKey,
                    call |-> SendMessageToGemini(history, userMessage.content,
                                                 userMessage.attachments,
                                                 deepThink, analyzeMode, optimizeMode)]
        nid == nextId + 1
    IN  IF SendRejected(textToSend)
        THEN UNCHANGED <<messages, currentSessionId, sessions, input, isLoading,
                        attachments, editingMessageId, editContent, store, pending,
                        apiKey, nextId, nextSessionId, now>>
        ELSE /\ IdLeft
             /\ messages' = msgs1
             /\ input' = (IF ~given \/ manualInput = <<>> THEN <<>> ELSE input)
             /\ attachments' = <<>>
             /\ isLoading' = TRUE
             /\ currentSessionId' = activeSessionId
             /\ sessions' = (IF needSession THEN GetSessions(store2) ELSE sessions)
             \* commit of setCurrentSessionId: the effect writes the real messages
             /\ store' = PersistEffect(store2, activeSessionId, msgs1, t, needSession)
             /\ pending' = Append(pending, request)
             /\ nextId' = nid
             /\ nextSessionId' = (IF needSession THEN nextSessionId + 1 ELSE nextSessionId)
             /\ now' = t
             /\ UNCHANGED <<editingMessageId, editContent, apiKey>>

\* handleSend(manualInput) called by a handler that sets no mode flag
HandleSend(given, manualInput, t) ==
    /\ HandleSendBody(given, manualInput, t)
    /\ UNCHANGED modes

\* the send button and the Enter key, App.tsx:294-299, 720-722
Send ==
    /\ ~MicrotaskPending
    /\ \E t \in ClockReads : HandleSend(FALSE, <<>>, t)

\* a QuickPrompt button, rendered while the conversation is empty (App.tsx:462)
QuickPrompt(p) ==
    /\ ~MicrotaskPending
    /\ Len(messages) = 0
    /\ \E t \in ClockReads : HandleSend(TRUE, p, t)

\* handleCodeAction('explain', code) from a code block of a model message
CodeActionExplain(code) ==
    /\ ~MicrotaskPending
    /\ \E i \in DOMAIN messages : messages[i].role = "model"
    /\ \E t \in ClockReads : HandleSend(TRUE, ExplainPrefix \o code, t)

\* handleCodeAction('refactor', code): setOptimizeMode(true) is queued and
\* handleSend runs at once, in the closure of the render that is on screen
CodeActionRefactor(code) ==
    /\ ~MicrotaskPending
    /\ \E i \in DOMAIN messages : messages[i].role = "model"
    /\ optimizeMode' = TRUE
    /\ UNCHANGED <<deepThink, analyzeMode>>
    /\ \E t \in ClockReads : HandleSendBody(TRUE, RefactorPrefix \o code, t)

(* ------------------------------ completion ------------------------------ *)
\* response.text || "No response generated."  (part_000:119)
ResponseContent(text) == IF text = <<>> THEN NoResponseText ELSE text

ErrorContent(origin) == IF origin = "send" THEN SendErrorText ELSE EditErrorText

\* the reply appended to the messages captured by the suspended call
ReconcileFromClosure(prev, r, botMessage) == Append(r.history, botMessage)

\* setMessages(prev => [...prev, botMessage]): prev is the state at the time
\* of the reply, r the suspended call (its closure is not consulted)
Reconcile(prev, r, botMessage) == Append(prev, botMessage)

\* the continuation without the append of the catch block
ResolveSilentOnFailure(i, ok, text, t) ==
    /\ i \in DOMAIN pending
    /\ IdLeft
    /\ MicrotaskPending => pending[i].settled
    /\ pending[i].settled => ~ok
    /\ LET r == pending[i]
           botMessage == Message(nextId, "model", ResponseContent(text), <<>>, t)
           msgs1 == IF ok THEN Reconcile(messages, r, botMessage) ELSE messages
       IN  /\ messages' = msgs1
           /\ isLoading' = FALSE
           /\ store' = PersistEffect(store, currentSessionId, msgs1, t, ok)
           /\ pending' = RemoveAt(pending, i)
           /\ nextId' = nextId + 1
           /\ now' = t
    /\ UNCHANGED <<modes, currentSessionId, sessions, input, attachments, editingMessageId,
                   editContent, apiKey, nextSessionId>>

\* continuation of the awaited sendMessageToGemini in handleSend / handleEditSave
Resolve(i, ok, text, t) ==
    /\ i \in DOMAIN pending
    /\ IdLeft
    /\ MicrotaskPending => pending[i].settled
    /\ pending[i].settled => ~ok
    /\ LET r == pending[i]
           content == IF ok THEN ResponseContent(text) ELSE ErrorContent(r.origin)
           botMessage == Message(nextId, "model", content, <<>>, t)
           msgs1 == Reconcile(messages, r, botMessage)
       IN  /\ messages' = msgs1
           /\ isLoading' = FALSE
           /\ store' = PersistEffect(store, currentSessionId, msgs1, t, TRUE)
           /\ pending' = RemoveAt(pending, i)
           /\ nextId' = nextId + 1
           /\ now' = t
    /\ UNCHANGED <<modes, currentSessionId, sessions, input, attachments, editingMessageId,
                   editContent, apiKey, nextSessionId>>

(* -------------------------------- edit ---------------------------------- *)
\* the pencil button, rendered on user messages while not loading (App.tsx:583)
EditClick(i) ==
    /\ ~MicrotaskPending
    /\ i \in DOMAIN messages
    /\ messages[i].role = "user"
    /\ ~isLoading
    /\ messages[i].id # editingMessageId
    /\ editingMessageId' = messages[i].id
    /\ editContent' = messages[i].content
    /\ UNCHANGED <<modes, messages, currentSessionId, sessions, input, isLoading, attachments,
                   store, pending, apiKey, nextId, nextSessionId, now>>

\* the edit box is rendered in place of the message being edited (App.tsx:518)
EditBoxShown == \E i \in DOMAIN messages : messages[i].id = editingMessageId

\* typing in the edit box
SetEditContent(t) ==
    /\ ~MicrotaskPending
    /\ EditBoxShown
    /\ t # editContent
    /\ editContent' = t
    /\ UNCHANGED <<modes, messages, currentSessionId, sessions, input, isLoading, attachments,
                   editingMessageId, store, pending, apiKey, nextId, nextSessionId, now>>

\* handleEditCancel
EditCancel ==
    /\ ~MicrotaskPending
    /\ EditBoxShown
    /\ editingMessageId' = NoEdit
    /\ editContent' = <<>>
    /\ UNCHANGED <<modes, messages, currentSessionId, sessions, input, isLoading, attachments,
                   store, pending, apiKey, nextId, nextSessionId, now>>

\* the early returns testing the edit text without trimming it
EditRejectedWithoutTrim ==
    \/ editingMessageId = NoEdit
    \/ editContent = <<>>
    \/ FindIndex(messages, editingMessageId) = 0

\* early returns of handleEditSave, App.tsx:160-163
EditRejected ==
    \/ editingMessageId = NoEdit
    \/ Trim(editContent) = <<>>
    \/ FindIndex(messages, editingMessageId) = 0

\* the edited message carrying the files staged in the composer
UpdatedMsgWithStagedAttachments(originalMsg, content) ==
    [originalMsg EXCEPT !.content = content, !.attachments = attachments]

\* the edited message rebuilt without the original's attachments
UpdatedMsgWithoutAttachments(originalMsg, content) ==
    [originalMsg EXCEPT !.content = content, !.attachments = <<>>]

\* updatedMsg = { ...originalMsg, content: editContent }
UpdatedMsg(originalMsg, content) == [originalMsg EXCEPT !.content = content]

\* the edited message replaced in place, nothing discarded
NewHistoryWithoutTruncation(msgs, msgIndex, updatedMsg) ==
    [msgs EXCEPT ![msgIndex] = updatedMsg]

\* newHistory = messages.slice(0, msgIndex + 1); newHistory[msgIndex] = updatedMsg
NewHistory(msgs, msgIndex, updatedMsg) ==
    Append(SubSeq(msgs, 1, msgIndex - 1), updatedMsg)

\* handleEditSave.  The handler is entered in any state; its own early
\* returns decide (the Save button itself exists only while EditBoxShown).
EditSave(t) ==
    /\ ~MicrotaskPending
    /\ LET msgIndex == FindIndex(messages, editingMessageId)
           originalMsg == messages[msgIndex]
           updatedMsg == UpdatedMsg(originalMsg, editContent)
           newHistory == NewHistory(messages, msgIndex, updatedMsg)
           apiHistory == FilterWelcome(SubSeq(newHistory, 1, Len(newHistory) - 1))
           request == [origin |-> "edit", history |-> apiHistory,
                       newMessage |-> updatedMsg.content,
                       attachments |-> updatedMsg.attachments,
                       session |-> currentSessionId, base |-> newHistory,
                       settled |-> ~apiKey,
                       call |-> SendMessageToGemini(apiHistory, updatedMsg.content,
                                                    updatedMsg.attachments,
                                                    deepThink, analyzeMode, optimizeMode)]
       IN  IF EditRejected
           THEN UNCHANGED vars
           ELSE /\ messages' = newHistory
                /\ editingMessageId' = NoEdit
                /\ isLoading' = TRUE
                /\ store' = PersistEffect(store, currentSessionId, newHistory, t, TRUE)
                /\ pending' = Append(pending, request)
                /\ now' = t
                /\ UNCHANGED <<modes, currentSessionId, sessions, input, attachments,
                               editContent, apiKey, nextId, nextSessionId>>

(* ------------------------------ sessions -------------------------------- *)
\* a new chat that creates its session at once
StartNewChatEager ==
    /\ ~MicrotaskPending
    /\ messages' = <<>>
    /\ currentSessionId' = nextSessionId
    /\ store' = Append(store, [id |-> nextSessionId, userId |-> GuestId,
                               title |-> DefaultTitle, messages |-> <<>>,
                               lastUpdated |-> now])
    /\ nextSessionId' = nextSessionId + 1
    /\ UNCHANGED <<modes, sessions, input, isLoading, attachments, editingMessageId,
                   editContent, pending, apiKey, nextId, now>>

\* startNewChat
StartNewChat ==
    /\ ~MicrotaskPending
    /\ messages' = <<>>
    /\ currentSessionId' = NoSession
    /\ UNCHANGED <<modes, sessions, input, isLoading, attachments, editingMessageId,
                   editContent, store, pending, apiKey, nextId, nextSessionId, now>>

\* loadSession(sessions[k]), a click on an entry of the sidebar
LoadSession(k, t) ==
    /\ ~MicrotaskPending
    /\ k \in DOMAIN sessions
    /\ LET session == sessions[k]
           depsChanged == session.id # currentSessionId \/ session.messages # messages
       IN  /\ currentSessionId' = session.id
           /\ messages' = session.messages
           /\ store' = PersistEffect(store, session.id, session.messages, t, depsChanged)
           /\ now' = (IF depsChanged THEN t ELSE now)
    /\ UNCHANGED <<modes, sessions, input, isLoading, attachments, editingMessageId,
                   editContent, pending, apiKey, nextId, nextSessionId>>

\* the delete without the reset of the active conversation
DeleteSessionKeepingActive(k, confirmed) ==
    /\ ~MicrotaskPending
    /\ k \in DOMAIN sessions
    /\ LET store1 == DeleteFromStore(store, sessions[k].id)
       IN  IF confirmed
           THEN store' = store1 /\ sessions' = GetSessions(store1)
           ELSE UNCHANGED <<store, sessions>>
    /\ UNCHANGED <<modes, messages, currentSessionId, input, isLoading, attachments,
                   editingMessageId, editContent, pending, apiKey, nextId,
                   nextSessionId, now>>

\* deleteSession(e, sessions[k].id); confirmed is the answer to window.confirm
DeleteSession(k, confirmed) ==
    /\ ~MicrotaskPending
    /\ k \in DOMAIN sessions
    /\ LET sessionId == sessions[k].id
           store1 == DeleteFromStore(store, sessionId)
       IN  IF confirmed
           THEN /\ store' = store1
                /\ sessions' = GetSessions(store1)
                /\ IF currentSessionId = sessionId
                   THEN messages' = <<>> /\ currentSessionId' = NoSession
                   ELSE UNCHANGED <<messages, currentSessionId>>
           ELSE UNCHANGED <<store, sessions, messages, currentSessionId>>
    /\ UNCHANGED <<modes, input, isLoading, attachments, editingMessageId, editContent,
                   pending, apiKey, nextId, nextSessionId, now>>

(* ------------------------------- inputs --------------------------------- *)
\* typing in the input box
SetInput(t) ==
    /\ ~MicrotaskPending
    /\ t # input
    /\ input' = t
    /\ UNCHANGED <<modes, messages, currentSessionId, sessions, isLoading, attachments,
                   editingMessageId, editContent, store, pending, apiKey, nextId, nextSessionId, now>>

\* handleFileUpload with one readable file of at most 5 MB
AddFile(f) ==
    /\ ~MicrotaskPending
    /\ \A i \in DOMAIN attachments : attachments[i] # f   \* each file is staged once
    /\ attachments' = Append(attachments, f)
    /\ UNCHANGED <<modes, messages, currentSessionId, sessions, input, isLoading,
                   editingMessageId, editContent, store, pending, apiKey, nextId, nextSessionId, now>>

\* removeAttachment(index)
RemoveAttachment(i) ==
    /\ ~MicrotaskPending
    /\ i \in DOMAIN attachments
    /\ attachments' = RemoveAt(attachments, i)
    /\ UNCHANGED <<modes, messages, currentSessionId, sessions, input, isLoading,
                   editingMessageId, editContent, store, pending, apiKey, nextId, nextSessionId, now>>

(* ------------------------------ mode flags ------------------------------ *)
\* the Analyze, Optimize and Deep Think toggles, App.tsx:648-672, 765-783
ToggleAnalyzeMode ==
    /\ ~MicrotaskPending
    /\ analyzeMode' = ~analyzeMode
    /\ UNCHANGED <<messages, currentSessionId, sessions, input, isLoading, attachments,
                   editingMessageId, editContent, store, pending, apiKey, nextId,
                   nextSessionId, now, deepThink, optimizeMode>>

ToggleOptimizeMode ==
    /\ ~MicrotaskPending
    /\ optimizeMode' = ~optimizeMode
    /\ UNCHANGED <<messages, currentSessionId, sessions, input, isLoading, attachments,
                   editingMessageId, editContent, store, pending, apiKey, nextId,
                   nextSessionId, now, deepThink, analyzeMode>>

ToggleDeepThink ==
    /\ ~MicrotaskPending
    /\ deepThink' = ~deepThink
    /\ UNCHANGED <<messages, currentSessionId, sessions, input, isLoading, attachments,
                   editingMessageId, editContent, store, pending, apiKey, nextId,
                   nextSessionId, now, analyzeMode, optimizeMode>>

(* ---------------------------- specification ----------------------------- *)
\* The conversation engine with the feature flags as constructed: the flags
\* reach nothing but the composed request, which ModeSpec below covers.
Next ==
    \/ Send
    \/ \E p \in QuickPrompts : QuickPrompt(p)
    \/ \E c \in CodeBlocks : CodeActionExplain(c)
    \/ \E i \in DOMAIN pending, ok \in BOOLEAN, r \in ResponseTexts, t \in ClockReads :
          Resolve(i, ok, r, t)
    \/ \E i \in DOMAIN messages : EditClick(i)
    \/ \E t \in EditTexts : SetEditContent(t)
    \/ EditCancel
    \/ \E t \in ClockReads : EditSave(t)
    \/ StartNewChat
    \/ \E k \in DOMAIN sessions, t \in ClockReads : LoadSession(k, t)
    \/ \E k \in DOMAIN sessions, c \in BOOLEAN : DeleteSession(k, c)
    \/ \E t \in TypedTexts : SetInput(t)
    \/ \E f \in Files : AddFile(f)
    \/ \E i \in DOMAIN attachments : RemoveAttachment(i)

Spec == Init /\ [][Next]_vars

\* Conversations driven by sends alone: the user types, stages files, sends
\* and waits for the reply; a stored session is opened only while nothing
\* is awaited.  The identifiers start one lower, which leaves one for the
\* reply to the send that takes the last one.
SendInit == InitFrom(0)

LoadAtRest(k, t) ==
    /\ pending = <<>>
    /\ LoadSession(k, t)

SendNext ==
    \/ Send
    \/ \E p \in QuickPrompts : QuickPrompt(p)
    \/ \E c \in CodeBlocks : CodeActionExplain(c)
    \/ \E i \in DOMAIN pending, ok \in BOOLEAN, r \in ResponseTexts, t \in ClockReads :
          Resolve(i, ok, r, t)
    \/ \E k \in DOMAIN sessions, t \in ClockReads : LoadAtRest(k, t)
    \/ \E t \in TypedTexts : SetInput(t)
    \/ \E f \in Files : AddFile(f)
    \/ \E i \in DOMAIN attachments : RemoveAttachment(i)

SendSpec == SendInit /\ [][SendNext]_vars

\* Requests composed under every setting of the feature flags: the user
\* toggles the flags, sends, edits, and the replies arrive.
ModeNext ==
    \/ ToggleAnalyzeMode
    \/ ToggleOptimizeMode
    \/ ToggleDeepThink
    \/ \E p \in QuickPrompts : QuickPrompt(p)
    \/ \E i \in DOMAIN pending, ok \in BOOLEAN, r \in ResponseTexts, t \in ClockReads :
          Resolve(i, ok, r, t)
    \/ \E k \in DOMAIN sessions, t \in ClockReads : LoadAtRest(k, t)
    \/ \E i \in DOMAIN messages : EditClick(i)
    \/ \E t \in EditTexts : SetEditContent(t)
    \/ \E t \in ClockReads : EditSave(t)

ModeSpec == Init /\ [][ModeNext]_vars

\* First messages of every length around the title limit: the user types
\* (or only stages a file), sends, and the reply arrives.
Repeat(c, n) == [i \in 1..n |-> c]

TitleTexts == {Repeat("x", n) : n \in {1, TitleLen - 1, TitleLen, TitleLen + 1}}

TitleNext ==
    \/ \E t \in TitleTexts : SetInput(t)
    \/ \E f \in Files : AddFile(f)
    \/ \E i \in DOMAIN attachments : RemoveAttachment(i)
    \/ Send
    \/ \E i \in DOMAIN pending, ok \in BOOLEAN, r \in ResponseTexts, t \in ClockReads :
          Resolve(i, ok, r, t)

TitleSpec == SendInit /\ [][TitleNext]_vars

\* Sends with files up to the size the upload accepts.
QuotaNext ==
    \/ \E f \in Files \cup {LargeFile} : AddFile(f)
    \/ \E i \in DOMAIN attachments : RemoveAttachment(i)
    \/ \E t \in TypedTexts : SetInput(t)
    \/ Send
    \/ \E i \in DOMAIN pending, ok \in BOOLEAN, r \in ResponseTexts, t \in ClockReads :
          Resolve(i, ok, r, t)
    \/ \E k \in DOMAIN sessions, t \in ClockReads : LoadAtRest(k, t)

QuotaSpec == SendInit /\ [][QuotaNext]_vars

\* Requests that are all answered.  A request is dispatched only while
\* generateId() has identifiers left for it and for the reply to every
\* request in flight; every dispatched call resolves or fails in the end.
IdsLeftFor(n) == nextId + Len(pending) + n <= MaxId + 1

AnswerReply ==
    \E i \in DOMAIN pending, ok \in BOOLEAN, r \in ResponseTexts, t \in ClockReads :
       Resolve(i, ok, r, t)

LiveNext ==
    \/ \E t \in TypedTexts : SetInput(t)
    \/ IdsLeftFor(2) /\ Send
    \/ \E i \in DOMAIN messages : EditClick(i)
    \/ \E t \in ClockReads : IdsLeftFor(1) /\ EditSave(t)
    \/ StartNewChat
    \/ \E k \in DOMAIN sessions, t \in ClockReads : LoadSession(k, t)
    \/ AnswerReply

LiveSpec == SendInit /\ [][LiveNext]_vars /\ WF_vars(AnswerReply)

\* A visit that finds the store filled to the quota: one session whose
\* serialised text leaves no character, so that the save of any further
\* session is refused.
FullSession ==
    [id |-> PriorSessionId, userId |-> GuestId, title |-> SessionTitle(<<"a">>),
     messages |-> <<Message(101, "user", <<"a">>, <<FillFile>>, PastTime)>>,
     lastUpdated |-> PastTime]

FullInit == InitWith(0, {<<FullSession>>})

FullNext ==
    \/ \E t \in TypedTexts : SetInput(t)
    \/ \E f \in Files : AddFile(f)
    \/ Send
    \/ StartNewChat
    \/ AnswerReply

FullSpec == FullInit /\ [][FullNext]_vars

\* Conversations with deletions: sessions are created by quick prompts,
\* opened, edited and deleted, also while a reply is awaited.
DeleteNext ==
    \/ \E p \in QuickPrompts : QuickPrompt(p)
    \/ \E i \in DOMAIN messages : EditClick(i)
    \/ \E t \in ClockReads : EditSave(t)
    \/ StartNewChat
    \/ \E k \in DOMAIN sessions, t \in ClockReads : LoadSession(k, t)
    \/ \E k \in DOMAIN sessions, c \in BOOLEAN : DeleteSession(k, c)
    \/ AnswerReply

DeleteSpec == SendInit /\ [][DeleteNext]_vars

\* Code actions on the code blocks of a stored conversation, under every
\* setting of the mode flags.
RefactorNext ==
    \/ ToggleAnalyzeMode
    \/ ToggleOptimizeMode
    \/ ToggleDeepThink
    \/ \E k \in DOMAIN sessions, t \in ClockReads : LoadAtRest(k, t)
    \/ \E c \in CodeBlocks : CodeActionExplain(c)
    \/ \E c \in CodeBlocks : CodeActionRefactor(c)
    \/ AnswerReply

RefactorSpec == SendInit /\ [][RefactorNext]_vars

\* Edits of a stored conversation while text and files wait in the composer.
EditNext ==
    \/ \E k \in DOMAIN sessions, t \in ClockReads : LoadAtRest(k, t)
    \/ \E t \in TypedTexts : SetInput(t)
    \/ \E f \in Files : AddFile(f)
    \/ \E i \in DOMAIN messages : EditClick(i)
    \/ \E t \in EditTexts : SetEditContent(t)
    \/ \E t \in ClockReads : EditSave(t)
    \/ AnswerReply

EditSpec == Init /\ [][EditNext]_vars

\* A later visit.  The earlier one sent a first message and, before the
\* reply, clicked its session in the list: the effect then wrote the list's
\* copy, the stand-in message of createSession, over the stored sequence
\* (Spec reaches that store by QuickPrompt and LoadSession), and the page
\* was closed.
TempSession ==
    [id |-> PriorSessionId, userId |-> GuestId, title |-> SessionTitle(<<"a">>),
     messages |-> <<Message(TempId, "user", <<"a">>, <<>>, PastTime)>>,
     lastUpdated |-> PastTime]

ResumeInit == InitWith(0, {<<TempSession>>})

ResumeNext ==
    \/ \E k \in DOMAIN sessions, t \in ClockReads : LoadAtRest(k, t)
    \/ \E t \in TypedTexts : SetInput(t)
    \/ \E f \in Files : AddFile(f)
    \/ Send
    \/ \E i \in DOMAIN pending, ok \in BOOLEAN, r \in ResponseTexts, t \in ClockReads :
          Resolve(i, ok, r, t)

ResumeSpec == ResumeInit /\ [][ResumeNext]_vars

(* ------------------------------ properties ------------------------------ *)
Last(seq) == seq[Len(seq)]

\* some handler that calls handleSend is running
SendAttempt ==
    \/ Send
    \/ \E p \in QuickPrompts : QuickPrompt(p)
    \/ \E c \in CodeBlocks : CodeActionExplain(c)

\* handleEditSave is running
EditSaveAttempt == \E t \in ClockReads : EditSave(t)

\* the suspended calls dispatched from the conversation now active
InFlightHere == {i \in DOMAIN pending : pending[i].session = currentSessionId}

\* C1: at every moment at most one completion request is in flight for the
\* active conversation.
C1_AtMostOneInFlight == Cardinality(InFlightHere) <= 1

\* C2: an edit-save issued while a reply is awaited is rejected: the message
\* sequence is not changed and no completion request is dispatched.
C2_EditSaveRejectedWhileAwaiting ==
    [][(isLoading /\ EditSaveAttempt) => UNCHANGED <<messages, pending>>]_vars

\* C3: a send issued while a reply is awaited is rejected: no message is
\* appended, the staged attachments are kept and no request is dispatched.
C3_SendRejectedWhileAwaiting ==
    [][(isLoading /\ SendAttempt) => UNCHANGED <<messages, attachments, pending>>]_vars

C3_Witness ==
    /\ isLoading
    /\ Len(pending) = 1
    /\ Trim(input) # <<>>
    /\ attachments # <<>>

\* C4: in a conversation driven by sends, an accepted send appends one user
\* message at the tail and the reply to it (text or error) appends one model
\* message right after that user message; everything before is unchanged.
C4_RoundTripAppendsTwo ==
    [][/\ (SendAttempt /\ messages' # messages)
            => /\ Len(messages') = Len(messages) + 1
               /\ SubSeq(messages', 1, Len(messages)) = messages
               /\ Last(messages').role = "user"
       /\ \A i \in DOMAIN pending :
            (\E ok \in BOOLEAN, r \in ResponseTexts, t \in ClockReads : Resolve(i, ok, r, t))
            => /\ Len(messages') = Len(pending[i].history) + 2
               /\ SubSeq(messages', 1, Len(messages') - 2) = pending[i].history
               /\ messages'[Len(messages') - 1].role = "user"
               /\ messages'[Len(messages') - 1].content = pending[i].newMessage
               /\ Last(messages').role = "model"]_vars

C4_Witness ==
    /\ ~isLoading
    /\ pending = <<>>
    /\ Len(messages) = 6
    /\ messages[5].role = "user" /\ messages[5].id = 0
    /\ messages[6].role = "model" /\ messages[6].id = 1

\* C5: a send of empty or whitespace-only text with nothing staged changes
\* neither the messages, nor the loading state, nor the active session, nor
\* the store, and dispatches nothing.
C5_BlankSendIsNoOp ==
    [][(Trim(input) = <<>> /\ attachments = <<>> /\ Send)
          => UNCHANGED <<messages, isLoading, currentSessionId, store, pending>>]_vars

C5_Witness ==
    /\ ~isLoading
    /\ input # <<>> /\ Trim(input) = <<>>
    /\ attachments = <<>>
    /\ messages # <<>>
    /\ currentSessionId # NoSession

\* C6: an accepted edit of the message at position i (counted from 1) leaves,
\* in the same step, a sequence of exactly i messages.
C6_EditTruncatesToIndex ==
    [][(~EditRejected /\ EditSaveAttempt)
          => Len(messages') = FindIndex(messages, editingMessageId)]_vars

C6_Witness ==
    \E i \in DOMAIN pending :
        /\ pending[i].origin = "edit"
        /\ messages = pending[i].base
        /\ \E k \in DOMAIN sessions :
              /\ sessions[k].id = currentSessionId
              /\ Len(sessions[k].messages) > Len(messages)

\* C7: after an accepted edit the regeneration request's history is the
\* messages strictly before the edited one, and on successful completion
\* the sequence is the retained prefix, the edited message and one new
\* model message.
C7_EditRegeneratesOnPrefix ==
    [][\A i \in DOMAIN pending :
          (/\ pending[i].origin = "edit"
           /\ \E r \in ResponseTexts, t \in ClockReads : Resolve(i, TRUE, r, t))
          => /\ pending[i].history = SubSeq(pending[i].base, 1, Len(pending[i].base) - 1)
             /\ Len(messages') = Len(pending[i].base) + 1
             /\ SubSeq(messages', 1, Len(pending[i].base)) = pending[i].base
             /\ Last(messages').role = "model"]_vars

\* C8: an accepted edit changes only the content of the edited message; its
\* id, attachments and timestamp and every message before it stay as they were.
C8_EditChangesOnlyContent ==
    [][(~EditRejected /\ EditSaveAttempt)
          => LET i == FindIndex(messages, editingMessageId)
             IN  /\ SubSeq(messages', 1, i - 1) = SubSeq(messages, 1, i - 1)
                 /\ messages'[i].content = editContent
                 /\ messages'[i].id = messages[i].id
                 /\ messages'[i].role = messages[i].role
                 /\ messages'[i].attachments = messages[i].attachments
                 /\ messages'[i].timestamp = messages[i].timestamp]_vars

C8_Witness ==
    \E i \in DOMAIN pending :
        /\ pending[i].origin = "edit"
        /\ messages = pending[i].base
        /\ Len(messages) >= 3
        /\ Last(messages).attachments # <<>>
        /\ Last(messages).content = <<"b">>

\* the edit target is a user message of the active sequence
EditTargetIsUserMessage ==
    \E i \in DOMAIN messages :
        messages[i].id = editingMessageId /\ messages[i].role = "user"

\* C9: an edit-save whose target is not a user message of the active
\* sequence, or whose new text is empty or whitespace-only, changes no
\* message and dispatches nothing.
C9_InvalidEditRejected ==
    [][((~EditTargetIsUserMessage \/ Trim(editContent) = <<>>) /\ EditSaveAttempt)
          => UNCHANGED <<messages, pending>>]_vars

C9_Witness ==
    /\ EditBoxShown
    /\ editContent # <<>> /\ Trim(editContent) = <<>>
    /\ ~isLoading

\* the sequence the store holds for a session
StoredMessages(st, sid) ==
    LET index == FindIndex(st, sid) IN IF index = 0 THEN <<>> ELSE st[index].messages

\* C10: a session switch sets the active sequence to the sequence most
\* recently persisted in the store for the selected session.
C10_LoadShowsStoredSequence ==
    [][\A k \in DOMAIN sessions :
          (\E t \in ClockReads : LoadSession(k, t))
          => messages' = StoredMessages(store, sessions[k].id)]_vars

\* loadSession is running
LoadAttempt == \E k \in DOMAIN sessions, t \in ClockReads : LoadSession(k, t)

\* C11: while a completion request is in flight, a click on a session of the
\* list replaces neither the active session id nor the active sequence.
C11_LoadRejectedWhileAwaiting ==
    [][(isLoading /\ pending # <<>> /\ LoadAttempt)
          => UNCHANGED <<currentSessionId, messages>>]_vars

\* no model message comes first in the sequence
StartsWithUser(seq) == seq = <<>> \/ seq[1].role = "user"

\* C12: in the active conversation and in every stored session each model
\* message has a user message before it: no sequence starts with a model
\* message.
C12_ModelPrecededByUser ==
    /\ StartsWithUser(messages)
    /\ \A k \in DOMAIN store : StartsWithUser(store[k].messages)

\* C13: when a completion succeeds, one model message carrying the text the
\* completion call returned is appended at the tail of the active sequence,
\* and the store then holds the full updated sequence under the active
\* session's id.
C13_SuccessAppendsAndPersists ==
    [][\A i \in DOMAIN pending, r \in ResponseTexts :
          (\E t \in ClockReads : Resolve(i, TRUE, r, t))
          => /\ Len(messages') = Len(messages) + 1
             /\ SubSeq(messages', 1, Len(messages)) = messages
             /\ Last(messages').role = "model"
             /\ Last(messages').content = ResponseContent(r)
             /\ StoredMessages(store', currentSessionId') = messages']_vars

\* a synthetic error message of a failed completion
IsErrorMessage(m) == m.role = "model" /\ m.content \in {SendErrorText, EditErrorText}

\* C14: when a completion fails, one synthetic model message carrying the
\* error text is appended at the tail and the store then holds the full
\* updated sequence under the active session's id; every later send passes
\* the error messages of the active sequence in its history.
C14_FailureAppendsAndPersists ==
    [][/\ \A i \in DOMAIN pending :
            (\E r \in ResponseTexts, t \in ClockReads : Resolve(i, FALSE, r, t))
            => /\ Len(messages') = Len(messages) + 1
               /\ SubSeq(messages', 1, Len(messages)) = messages
               /\ IsErrorMessage(Last(messages'))
               /\ StoredMessages(store', currentSessionId') = messages'
       /\ (SendAttempt /\ Len(pending') > Len(pending))
            => \A j \in DOMAIN messages :
                  IsErrorMessage(messages[j])
                  => \E h \in DOMAIN Last(pending').history :
                        Last(pending').history[h] = messages[j]]_vars

\* the texts appended after a transport or remote failure of a send or an edit
RemoteFailureTexts == {ErrorContent(o) : o \in {"send", "edit"}}

\* C15: the message appended after a failure for the missing credential
\* carries none of the texts appended after a transport or remote failure.
C15_CredentialErrorDistinct ==
    [][\A i \in DOMAIN pending :
          (/\ pending[i].call = {}
           /\ \E r \in ResponseTexts, t \in ClockReads : Resolve(i, FALSE, r, t))
          => Last(messages').content \notin RemoteFailureTexts]_vars

\* the ids of the sessions a store holds
StoreIds(st) == {st[k].id : k \in DOMAIN st}

\* a handler that calls handleSend is running and its guard lets it pass
AcceptedSend == Len(pending') > Len(pending) /\ SendAttempt

StoredSession(st, sid) == st[FindIndex(st, sid)]

\* C17: the session created by the first send of a conversation is titled
\* with the first 30 characters of the message's content, followed by the
\* ellipsis exactly when the content has more than 30 characters; an empty
\* content gives the default title.
C17_TitleFromFirstMessage ==
    [][(AcceptedSend /\ currentSessionId = NoSession)
          => LET content == Last(messages').content
                 title == StoredSession(store', currentSessionId').title
             IN  IF content = <<>> THEN title = <<"New Chat">>
                 ELSE IF Len(content) > 30
                      THEN title = SubSeq(content, 1, 30) \o <<".", ".", ".">>
                      ELSE title = content]_vars

\* a session created by, and titled from, a first message of 31 characters
C17_Witness ==
    /\ currentSessionId # NoSession
    /\ Len(messages) >= 1
    /\ Len(messages[1].content) = 31
    /\ Len(StoredSession(store, currentSessionId).title) = 33

\* C18: a confirmed delete of the active session while nothing is awaited
\* leaves the engine at rest with no active session and an empty sequence,
\* and the list of sessions no longer returns the deleted one.
C18_DeleteActiveResets ==
    [][\A k \in DOMAIN sessions :
          (/\ ~isLoading /\ pending = <<>>
           /\ sessions[k].id = currentSessionId
           /\ DeleteSession(k, TRUE))
          => /\ ~isLoading' /\ pending' = <<>>
             /\ currentSessionId' = NoSession
             /\ messages' = <<>>
             /\ sessions[k].id \notin StoreIds(GetSessions(store'))
             /\ sessions[k].id \notin StoreIds(sessions')]_vars

\* the stored session was opened, its edit box opened, and the session
\* deleted: the edit target is left over from the deleted conversation
C18_Witness ==
    /\ store = <<>>
    /\ sessions = <<>>
    /\ editingMessageId = 101
    /\ messages = <<>>
    /\ currentSessionId = NoSession
    /\ ~isLoading /\ pending = <<>>
    /\ nextId = 1

\* a handler has dispatched a completion request in this step
Dispatch == Len(pending') > Len(pending)

\* the generateContent calls of the request just dispatched (none without key)
DispatchedCalls == Last(pending').call

\* C19: the system instruction of every dispatched call is the base block,
\* then the analysis block iff analyzeMode, then the optimization block iff
\* optimizeMode, then the directive naming the active modes in that order
\* iff one of the two is active; deepThink has no part in it.
C19_InstructionComposition ==
    [][Dispatch
          => \A c \in DispatchedCalls :
                c.config.systemInstruction =
                   CASE ~analyzeMode /\ ~optimizeMode -> BaseInstruction
                     [] analyzeMode /\ ~optimizeMode ->
                          BaseInstruction \o <<Blank>> \o AnalyzeInstruction
                          \o <<Blank, DirectiveHead, "Analysis", DirectiveTail>>
                     [] ~analyzeMode /\ optimizeMode ->
                          BaseInstruction \o <<Blank>> \o OptimizeInstruction
                          \o <<Blank, DirectiveHead, "Optimization", DirectiveTail>>
                     [] analyzeMode /\ optimizeMode ->
                          BaseInstruction \o <<Blank>> \o AnalyzeInstruction
                          \o <<Blank>> \o OptimizeInstruction
                          \o <<Blank, DirectiveHead, "Analysis", ", ", "Optimization",
                               DirectiveTail>>]_vars

\* a call composed with analysis and optimization on and deep think off is
\* in flight
C19_Witness ==
    \E i \in DOMAIN pending :
        \E c \in pending[i].call :
            /\ analyzeMode /\ optimizeMode /\ ~deepThink
            /\ Len(c.config.systemInstruction) = 11
            /\ DOMAIN c.config = {"systemInstruction"}

\* C20: the model of every dispatched call is decided by deepThink alone:
\* the deep-reasoning variant when it is on, the default variant when it is
\* off, whatever analyzeMode and optimizeMode are.
C20_ModelFromDeepThink ==
    [][Dispatch
          => \A c \in DispatchedCalls :
                c.model = (IF deepThink THEN "gemini-2.5-flash" ELSE "gemini-3-pro-preview")]_vars

\* a call composed with deep think and analysis on and optimization off is
\* in flight: it goes to the deep-reasoning variant
C20_Witness ==
    \E i \in DOMAIN pending :
        \E c \in pending[i].call :
            /\ deepThink /\ analyzeMode /\ ~optimizeMode
            /\ c.model = "gemini-2.5-flash"
            /\ Len(c.config.systemInstruction) = 7

\* C21: the config of every dispatched call has the thinkingConfig key, with
\* a positive budget, exactly when deepThink is on; when it is off the key
\* is absent, whatever analyzeMode and optimizeMode are.
C21_BudgetIffDeepThink ==
    [][Dispatch
          => \A c \in DispatchedCalls :
                IF deepThink
                THEN /\ "thinkingConfig" \in DOMAIN c.config
                     /\ c.config.thinkingConfig.thinkingBudget > 0
                ELSE "thinkingConfig" \notin DOMAIN c.config]_vars

\* a call composed with only deep think on is in flight and carries the budget
C21_Witness ==
    \E i \in DOMAIN pending :
        \E c \in pending[i].call :
            /\ deepThink /\ ~analyzeMode /\ ~optimizeMode
            /\ DOMAIN c.config = {"systemInstruction", "thinkingConfig"}
            /\ c.config.systemInstruction = BaseInstruction

\* the ids that tag a message as a stand-in: the greeting the history
\* filters look for and the temporary first message of createSession
PlaceholderIds == {WelcomeId, TempId}

\* C22: the history of every dispatched request, by send or by edit, holds
\* no message tagged as a placeholder.
C22_NoPlaceholderInHistory ==
    [][Dispatch
          => \A h \in DOMAIN Last(pending').history :
                Last(pending').history[h].id \notin PlaceholderIds]_vars

\* new is old with one message added at the tail
IsAppend(old, new) ==
    /\ Len(new) = Len(old) + 1
    /\ SubSeq(new, 1, Len(old)) = old

\* new is a non-empty prefix of old, its last message with another content
\* at most
IsEditTruncation(old, new) ==
    /\ Len(new) \in 1..Len(old)
    /\ \A j \in 1..(Len(new) - 1) : new[j] = old[j]
    /\ new[Len(new)] = [old[Len(new)] EXCEPT !.content = new[Len(new)].content]

\* C23: the sequence stored for a session changes only by an append of one
\* message at the tail or by a truncation to a prefix whose last message has
\* its content replaced.
C23_AppendTruncateLog ==
    [][\A sid \in StoreIds(store) \cap StoreIds(store') :
          LET old == StoredMessages(store, sid)
              new == StoredMessages(store', sid)
          IN  old = new \/ IsAppend(old, new) \/ IsEditTruncation(old, new)]_vars

\* C24: whenever the sequence stored for a session changes, the session's
\* lastUpdated after the change is strictly greater than before it.
C24_LastUpdatedStrictlyIncreases ==
    [][\A sid \in StoreIds(store) \cap StoreIds(store') :
          StoredMessages(store', sid) # StoredMessages(store, sid)
             => StoredSession(store', sid).lastUpdated
                   > StoredSession(store, sid).lastUpdated]_vars

\* C25: a write that changes a stored session is an update of the active
\* session: it stores the whole in-memory sequence it was given together with
\* the time read by that write, and leaves id, owner and title alone; the new
\* sequence is never stored beside the time stamp of the previous write.
C25_UpdateReplacesAndStamps ==
    [][\A sid \in StoreIds(store) \cap StoreIds(store') :
          StoredSession(store', sid) # StoredSession(store, sid)
             => /\ sid = currentSessionId'
                /\ StoredSession(store', sid)
                      = [StoredSession(store, sid) EXCEPT !.messages = messages',
                                                          !.lastUpdated = now']]_vars

\* the edit of the first message of the stored session has just been saved:
\* the store holds the truncated sequence, not the four messages of before,
\* under the time of this write
C25_Witness ==
    /\ currentSessionId = PriorSessionId
    /\ Len(pending) = 1
    /\ pending[1].origin = "edit"
    /\ Len(messages) = 1
    /\ messages[1].content = <<"b">>
    /\ StoredMessages(store, PriorSessionId) = messages
    /\ StoredSession(store, PriorSessionId).lastUpdated = now
    /\ now > PastTime

IsSortedDesc(seq) ==
    \A i \in 1..(Len(seq) - 1) : seq[i].lastUpdated >= seq[i + 1].lastUpdated

Elements(seq) == {seq[i] : i \in DOMAIN seq}

\* C26: whatever creates, updates and deletes have been applied to the
\* store, the list is the stored sessions, each once, by lastUpdated
\* descending; the list shown in the sidebar, a result of an earlier call,
\* is in that order too.
C26_ListOrderedDesc ==
    /\ IsSortedDesc(GetSessions(store))
    /\ Len(GetSessions(store)) = Len(store)
    /\ Elements(GetSessions(store)) = Elements(store)
    /\ IsSortedDesc(sessions)

\* the stored array holds the older session first and the session created
\* in this visit second; the list shows them the other way round
C26_Witness ==
    /\ Len(store) = 2
    /\ store[1].lastUpdated < store[2].lastUpdated
    /\ Len(sessions) = 2
    /\ sessions[1].id = store[2].id
    /\ GetSessions(store)[1] = store[2]

\* the persistence effect has called updateSession for a stored session
UpdateOfStoredSession ==
    /\ <<messages, currentSessionId>>' # <<messages, currentSessionId>>
    /\ Len(messages') > 0
    /\ currentSessionId' \in StoreIds(store')

\* C27: after an update of a stored session, the list holds that session
\* with exactly the sequence that was passed to the update: the same
\* messages in the same order, attachments and their payloads included.
C27_UpdateListRoundTrip ==
    [][UpdateOfStoredSession
          => \E k \in DOMAIN GetSessions(store') :
                /\ GetSessions(store')[k].id = currentSessionId'
                /\ GetSessions(store')[k].messages = messages']_vars

\* C28: when no request is awaited, a session is active and the active
\* sequence is not empty, the sequence stored for the active session is the
\* active sequence.
C28_StoredEqualsActiveAtIdle ==
    (~isLoading /\ currentSessionId # NoSession /\ messages # <<>>)
       => /\ currentSessionId \in StoreIds(store)
          /\ StoredMessages(store, currentSessionId) = messages

\* C29: after every accepted send, from the input box, a quick prompt or a
\* code action, no attachment is staged, the input box is empty, and the
\* last message of the active sequence is the new user message, while the
\* request is still in flight.
C29_SendClearsComposer ==
    [][AcceptedSend
          => /\ attachments' = <<>>
             /\ input' = <<>>
             /\ Last(messages').role = "user"
             /\ Last(messages').id = nextId
             /\ Last(messages').content = Last(pending').newMessage
             /\ Len(messages') = Len(messages) + 1]_vars

\* the continuation of some request in flight has run
Answered == Len(pending') < Len(pending)

\* C30: the reply or the failure of a request appends exactly one message,
\* of role model, to the active sequence and ends the wait; and, every
\* dispatched call resolving or failing in the end, whenever requests are in
\* flight the engine comes back to rest with none of them left.
C30_EveryRequestAnswered ==
    /\ [][Answered
            => /\ Len(pending') = Len(pending) - 1
               /\ Len(messages') = Len(messages) + 1
               /\ SubSeq(messages', 1, Len(messages)) = messages
               /\ Last(messages').role = "model"
               /\ ~isLoading']_vars
    /\ (pending # <<>>) ~> (pending = <<>> /\ ~isLoading)
    /\ isLoading ~> ~isLoading

\* a send of this visit has been answered: its user message and the model
\* message of the reply end the active sequence, and the engine is at rest
C30_Witness ==
    /\ pending = <<>>
    /\ ~isLoading
    /\ Len(messages) >= 2
    /\ messages[Len(messages) - 1].role = "user"
    /\ messages[Len(messages) - 1].id = 0
    /\ Last(messages).role = "model"
    /\ Last(messages).id = 1

\* C31: a send from a conversation without a session whose createSession
\* stores nothing still appends the user message and dispatches the request;
\* and the answer to a request is appended to the active sequence also when
\* the active session is not in the store.
C31_NoRollbackOnFailedCreate ==
    /\ [][(/\ Send
           /\ ~SendRejected(input)
           /\ currentSessionId = NoSession
           /\ StoreIds(store') = StoreIds(store))
            => /\ Len(messages') = Len(messages) + 1
               /\ SubSeq(messages', 1, Len(messages)) = messages
               /\ Last(messages').role = "user"
               /\ Last(messages').content = input
               /\ Len(pending') = Len(pending) + 1
               /\ Last(pending').newMessage = input]_vars
    /\ [][(Answered /\ currentSessionId \notin StoreIds(store))
            => /\ Len(messages') = Len(messages) + 1
               /\ SubSeq(messages', 1, Len(messages)) = messages
               /\ Last(messages').role = "model"]_vars

\* the session of the send could not be stored, and the conversation holds
\* the user message and the answer all the same
C31_Witness ==
    /\ currentSessionId # NoSession
    /\ currentSessionId \notin StoreIds(store)
    /\ pending = <<>>
    /\ ~isLoading
    /\ Len(messages) = 2
    /\ messages[1].role = "user"
    /\ messages[2].role = "model"
    /\ StoredLength(store) = Quota

\* the store after an update of the active session with the active sequence
\* that is not refused
IntendedStore ==
    LET index == FindIndex(store, currentSessionId)
    IN  [store EXCEPT ![index] = [@ EXCEPT !.messages = messages]]

RECURSIVE Alternates(_, _)
Alternates(msgs, n) ==
    IF n = 0 THEN TRUE
    ELSE /\ msgs[n].role = (IF n % 2 = 1 THEN "user" ELSE "model")
         /\ Alternates(msgs, n - 1)

\* C33: while no request is awaited the active sequence is empty or
\* alternates user and model messages, a user message first and a model
\* message last.
C33_IdleSequenceAlternates ==
    ~isLoading => (Len(messages) % 2 = 0 /\ Alternates(messages, Len(messages)))

\* C34: the answer to a request dispatched from a conversation is appended
\* while that conversation is the active one, and the write that follows
\* changes the stored sequence of no other session.
C34_AnswerStaysInItsConversation ==
    [][Answered
          => \E i \in DOMAIN pending :
                /\ pending' = RemoveAt(pending, i)
                /\ currentSessionId = pending[i].session
                /\ \A sid \in (StoreIds(store) \cap StoreIds(store')) \ {pending[i].session} :
                      StoredMessages(store', sid) = StoredMessages(store, sid)]_vars

\* C35: a click on a session of the list leaves every stored session as it
\* was, its sequence and its lastUpdated, the clicked one included.
C35_LoadLeavesStore ==
    [][LoadAttempt => store' = store]_vars

\* the ids of the sessions that exist or have existed
UsedSessionIds == {PriorSessionId} \cup {sid \in 1..(nextSessionId - 1) : TRUE}

\* C36: a session id that is in use or has been, and is not in the store, is
\* not in the store after any step: confirmed delete takes the session out
\* of the store, and neither an answer, a write of the effect, a send, an
\* edit nor a load puts a session of a used id into it.
C36_DeletedStaysDeleted ==
    /\ [](StoreIds(store) \subseteq UsedSessionIds)
    /\ [][\A sid \in UsedSessionIds \ StoreIds(store) : sid \notin StoreIds(store')]_vars
    /\ [][\A k \in DOMAIN sessions :
             DeleteSession(k, TRUE) => sessions[k].id \notin StoreIds(store')]_vars

\* the session created by a send was deleted during the wait and the answer
\* has arrived since: the store is without it
C36_Witness ==
    /\ nextSessionId = 2
    /\ 1 \notin StoreIds(store)
    /\ pending = <<>>
    /\ Len(messages) = 1
    /\ messages[1].role = "model"

\* the Refactor button of a code block has been clicked
RefactorAttempt == \E c \in CodeBlocks : CodeActionRefactor(c)

\* C37: the system instruction of the call dispatched by a refactor code
\* action is the one composed with the optimization mode on, whether the
\* mode was on or off when the button was clicked.
C37_RefactorUsesOptimizeMode ==
    [][(Dispatch /\ RefactorAttempt)
          => \A c \in DispatchedCalls :
                c.config.systemInstruction = SystemInstruction(analyzeMode, TRUE)]_vars

\* C38: the request dispatched by an accepted edit carries the attachments
\* of the edited message as the attachments of the new turn, in the request
\* and in the last turn of the call, and the edit changes neither the files
\* staged in the composer nor the text of the input box.
C38_EditUsesOwnAttachments ==
    [][(~EditRejected /\ EditSaveAttempt)
          => LET original == messages[FindIndex(messages, editingMessageId)]
                 request == Last(pending')
             IN  /\ request.attachments = original.attachments
                 /\ \A c \in request.call :
                       Last(c.contents).parts = Parts(editContent, original.attachments)
                 /\ attachments' = attachments
                 /\ input' = input]_vars

\* the edit of a message that has no attachment is in flight while a file
\* and a text wait in the composer
C38_Witness ==
    /\ Len(pending) = 1
    /\ pending[1].origin = "edit"
    /\ pending[1].attachments = <<>>
    /\ pending[1].call # {}
    /\ attachments # <<>>
    /\ input # <<>>

====
